---- MODULE Spec2Model ----
(***************************************************************************)
(* Detection & recovery orchestration of AI_reStarter:                     *)
(* KiroRecovery (src/src/core/kiro_recovery.py) with its ModeManager       *)
(* (src/src/core/mode_manager.py) and AmazonQDetector                      *)
(* (src/src/plugins/amazonq_detector.py).                                  *)
(*                                                                         *)
(* The control context (GUI / hotkeys) calls start_monitoring,             *)
(* stop_monitoring and switch_mode; every successful start_monitoring      *)
(* launches one daemon thread running monitor_loop.  A loop thread is      *)
(* followed through its blocking points: the `while self.monitoring`       *)
(* test, the capture + detection pass, the entry of                        *)
(* _handle_error_detection, send_recovery_command and the sleep.           *)
(*                                                                         *)
(* Time is counted in ticks, TicksPerSec ticks to a second, so that        *)
(* int(current_time) is a real truncation.                                 *)
(***************************************************************************)
EXTENDS Integers, Sequences, FiniteSets, TLC

\* ---------------------------------------------------------------- bounds
\* clock resolution: ticks per second
TicksPerSec == 2
\* ticks the clock may advance beyond its first value
Horizon == 3
\* most loop threads that exist at once
MaxThreads == 2
\* largest configured "max_recovery_attempts"
MaxAttemptsCfg == 2
\* configured "recovery_cooldown", in seconds
recovery_cooldown == 1
\* most entries of the configured "monitor_areas"
MaxAreas == 2
\* most detectors in an active detector list
MaxDetectors == 3
\* most templates in a template store
MaxTemplates == 2
\* highest similarity score, in score steps (a threshold is one of them)
MaxScore == 3
\* height and width of the sample, the largest template that fits it
MaxDim == 3

\* ------------------------------------------------------------- constants
VALID_MODES == {"kiro", "amazonq", "auto"}

Threads == 1..MaxThreads

\* recovery_cooldown in ticks
CooldownTicks == recovery_cooldown * TicksPerSec
\* time.time() at construction: far beyond any cooldown after time 0
Epoch == CooldownTicks
MaxTime == Epoch + Horizon

VARIABLES
    monitoring,             \* KiroRecovery.monitoring
    recovery_attempts,      \* KiroRecovery.recovery_attempts
    last_error_time,        \* KiroRecovery.last_error_time (ticks)
    max_recovery_attempts,  \* KiroRecovery.max_recovery_attempts
    current_mode,           \* ModeManager.current_mode
    config_mode,            \* ConfigManager.config["mode"]
    saved_mode,             \* "mode" in the configuration file
    amazonq_enabled,        \* config "amazonq.enabled"
    error_templates,        \* KiroRecovery.error_templates (names)
    now,                    \* time.time() (ticks)
    pc,                     \* position of each loop thread
    cur,                    \* current_time of _handle_error_detection
    log,                    \* outcome logged by the thread's last pass
    ret,                    \* value returned by the last call
    monitor_areas,          \* monitor_loop's local monitor_areas
    area,                   \* position of `for area in monitor_areas`
    scan_log,               \* areas captured in the thread's iteration and
                            \* the mode get_active_detectors logged for each
    detect_pass,            \* a call of detect_and_execute: the active list
                            \* it meets, the calls it makes, what it returns
    probe,                  \* a call of one detector function: the function,
                            \* its arguments, what it did and returned
    run_button_templates,   \* AmazonQDetector.run_button_templates: the
                            \* dict's <<name, image>> items in their order
    templates_dir,          \* the image in each name's file of the
                            \* amazonq templates directory ("" for no file)
    match_pass              \* the polling thread's position in the loop
                            \* over run_button_templates.items()

vars == <<monitoring, recovery_attempts, last_error_time,
          max_recovery_attempts, current_mode, config_mode, saved_mode,
          amazonq_enabled, error_templates, now, pc, cur, log, ret,
          monitor_areas, area, scan_log, detect_pass, probe,
          run_button_templates, templates_dir, match_pass>>

orch == <<monitoring, recovery_attempts, last_error_time>>
conf == <<max_recovery_attempts, current_mode, config_mode, saved_mode,
          amazonq_enabled, error_templates>>
tplv == <<run_button_templates, templates_dir, match_pass>>
detv == <<probe, tplv>>
scanv == <<monitor_areas, area, scan_log, detect_pass, detv>>

\* detect_and_execute not called: no list, no call, no return value
NoPass == [active |-> <<>>, calls |-> <<>>, result |-> -1]

\* no detector function has been called
NoProbe == [fn |-> "-"]

\* names and contents of run-button templates
TemplateNames == 1..MaxTemplates
Images == {"a", "b"}

\* detect_state is not running
NoMatchPass ==
    [state |-> "idle", used |-> 0, pos |-> 0, seen |-> <<>>, old |-> <<>>]

\* after AmazonQDetector.__init__ with one template file in the
\* directory, loaded by _load_run_button_templates
NoTemplateChange ==
    /\ run_button_templates = << <<1, "a">> >>
    /\ templates_dir = [name \in TemplateNames |->
                           IF name = 1 THEN "a" ELSE ""]
    /\ match_pass = NoMatchPass

NoDet ==
    /\ probe = NoProbe
    /\ NoTemplateChange

\* no area scan has been made
NoScan ==
    /\ monitor_areas = [t \in Threads |-> <<>>]
    /\ area = [t \in Threads |-> 0]
    /\ scan_log = [t \in Threads |-> <<>>]
    /\ detect_pass = NoPass
    /\ NoDet

\* ---------------------------------------------------------------- policy
\* int(current_time): truncation to whole seconds
IntTrunc(t) == (t \div TicksPerSec) * TicksPerSec

\* should_attempt_recovery, with current_time = t
ShouldAttemptLax(t, last, attempts, maxAttempts) ==
    IF t - last < CooldownTicks THEN FALSE
    ELSE IF attempts > maxAttempts THEN FALSE
    ELSE TRUE

ShouldAttempt(t, last, attempts, maxAttempts) ==
    IF t - last < CooldownTicks THEN FALSE
    ELSE IF attempts >= maxAttempts THEN FALSE
    ELSE TRUE

should_attempt_recovery ==
    ShouldAttempt(now, last_error_time, recovery_attempts,
                  max_recovery_attempts)

\* ------------------------------------------------------------ mode manager
\* ModeManager.detectors after _setup_detectors
detectors == {"amazonq"}

\* AmazonQDetector.is_enabled / BaseDetector.is_enabled
is_enabled(d) == IF d = "amazonq" THEN amazonq_enabled ELSE TRUE

\* ModeManager.get_active_detectors for mode m
get_active_detectorsUnfiltered(m) ==
    IF m = "kiro" THEN {d \in detectors : d = "kiro"}
    ELSE IF m = "amazonq" THEN {d \in detectors : d = "amazonq"}
    ELSE IF m = "auto" THEN detectors
    ELSE {}

get_active_detectors(m) ==
    IF m = "kiro" THEN {d \in detectors : d = "kiro" /\ is_enabled(d)}
    ELSE IF m = "amazonq"
         THEN {d \in detectors : d = "amazonq" /\ is_enabled(d)}
    ELSE IF m = "auto" THEN {d \in detectors : is_enabled(d)}
    ELSE {}

\* ------------------------------------------------------------------ init
Init ==
    /\ monitoring = FALSE
    /\ recovery_attempts = 0
    /\ last_error_time = 0
    /\ max_recovery_attempts = MaxAttemptsCfg
    /\ current_mode \in VALID_MODES
    /\ config_mode = current_mode
    /\ saved_mode = current_mode
    /\ amazonq_enabled = TRUE
    /\ error_templates = {"compilation_error"}
    /\ now = Epoch
    /\ pc = [t \in Threads |-> "none"]
    /\ cur = [t \in Threads |-> 0]
    /\ log = [t \in Threads |-> "none"]
    /\ ret = "-"
    /\ NoScan

\* ----------------------------------------------------------------- clock
Tick ==
    /\ now < MaxTime
    /\ now' = now + 1
    /\ UNCHANGED <<scanv, orch, conf, pc, cur, log, ret>>

\* ------------------------------------------------------- control context
\* the thread slot a new threading.Thread occupies
FreeSlot == CHOOSE t \in Threads :
               /\ pc[t] = "none"
               /\ \A u \in Threads : u < t => pc[u] # "none"

\* start_monitoring refuses: no template / no detector for the mode
StartRefused ==
    \/ current_mode = "kiro" /\ error_templates = {}
    \/ /\ current_mode \notin {"amazonq", "kiro"}
       /\ get_active_detectors(current_mode) = {}

\* the try block of start_monitoring; started = Thread.start() did not raise
StartLaunchNoReset(started) ==
    IF started
    THEN /\ \E t \in Threads : pc[t] = "none"
         /\ monitoring' = TRUE
         /\ recovery_attempts' = recovery_attempts
         /\ pc' = [pc EXCEPT ![FreeSlot] = "loop"]
         /\ ret' = "Thread"
    ELSE /\ monitoring' = FALSE
         /\ recovery_attempts' = 0
         /\ pc' = pc
         /\ ret' = "None"

StartLaunch(started) ==
    IF started
    THEN /\ \E t \in Threads : pc[t] = "none"
         /\ monitoring' = TRUE
         /\ recovery_attempts' = 0
         /\ pc' = [pc EXCEPT ![FreeSlot] = "loop"]
         /\ ret' = "Thread"
    ELSE /\ monitoring' = FALSE
         /\ recovery_attempts' = 0
         /\ pc' = pc
         /\ ret' = "None"

\* start_monitoring while self.monitoring is already true
StartWhileMonitoringResets ==
    /\ recovery_attempts' = 0
    /\ ret' = "None"
    /\ UNCHANGED <<monitoring, pc>>

StartWhileMonitoring ==
    /\ ret' = "None"
    /\ UNCHANGED <<monitoring, recovery_attempts, pc>>

StartMonitoringResetsCooldown ==
    /\ IF monitoring THEN StartWhileMonitoring
       ELSE IF StartRefused
            THEN /\ ret' = "None"
                 /\ UNCHANGED <<monitoring, recovery_attempts, pc>>
            ELSE \E started \in BOOLEAN : StartLaunch(started)
    /\ last_error_time' = IF monitoring' /\ ~monitoring THEN 0
                          ELSE last_error_time
    /\ UNCHANGED <<scanv, conf, now, cur, log>>

StartMonitoring ==
    /\ IF monitoring THEN StartWhileMonitoring
       ELSE IF StartRefused
            THEN /\ ret' = "None"
                 /\ UNCHANGED <<monitoring, recovery_attempts, pc>>
            ELSE \E started \in BOOLEAN : StartLaunch(started)
    /\ UNCHANGED <<scanv, last_error_time, conf, now, cur, log>>

\* stop_monitoring: a warning and nothing else when not monitoring
StopMonitoringToggles ==
    /\ monitoring' = ~monitoring
    /\ UNCHANGED <<scanv, recovery_attempts, last_error_time, conf, now, pc,
                   cur,
                   log, ret>>

StopMonitoring ==
    /\ monitoring' = (IF monitoring THEN FALSE ELSE monitoring)
    /\ UNCHANGED <<scanv, recovery_attempts, last_error_time, conf, now, pc,
                   cur,
                   log, ret>>

\* ModeManager.switch_mode(mode): an invalid mode is rejected; a valid one
\* is taken, written to the configuration (ConfigManager.set) and the
\* configuration is saved (saved: save_config wrote the file)
SwitchModeStoresInvalid(mode, saved) ==
    /\ IF mode \notin VALID_MODES
       THEN /\ config_mode' = mode
            /\ ret' = "False"
            /\ UNCHANGED <<current_mode, saved_mode>>
       ELSE /\ current_mode' = mode
            /\ config_mode' = mode
            /\ saved_mode' = (IF saved THEN mode ELSE saved_mode)
            /\ ret' = "True"
    /\ UNCHANGED <<scanv, orch, max_recovery_attempts, amazonq_enabled,
                   error_templates, now, pc, cur, log>>

SwitchMode(mode, saved) ==
    /\ IF mode \notin VALID_MODES
       THEN /\ ret' = "False"
            /\ UNCHANGED <<current_mode, config_mode, saved_mode>>
       ELSE /\ current_mode' = mode
            /\ config_mode' = mode
            /\ saved_mode' = (IF saved THEN mode ELSE saved_mode)
            /\ ret' = "True"
    /\ UNCHANGED <<scanv, orch, max_recovery_attempts, amazonq_enabled,
                   error_templates, now, pc, cur, log>>

\* ----------------------------------------------------------- loop thread
CaptureCfgs == {"areas", "region", "full"}

\* what one detector of the active list does when its turn comes:
\* detect_state returns None ("absent"), a result that is not is_valid()
\* ("invalid") or raises ("raises"); or the result is valid and
\* execute_recovery_action returns False ("action_failed"), raises
\* ("action_raises") or returns True ("executed")
Outcomes ==
    {"absent", "invalid", "raises", "action_failed", "action_raises",
     "executed"}

\* the `for detector in active_detectors` loop of detect_and_execute from
\* position i on, calls being the calls made so far; result is the
\* position of the detector whose result is returned, 0 for None
RECURSIVE DetectPass(_, _, _)
DetectPass(outs, i, calls) ==
    IF i > Len(outs) THEN [result |-> 0, calls |-> calls]
    ELSE LET detected == Append(calls, <<i, "detect_state">>)
             acted == Append(detected, <<i, "execute_recovery_action">>)
         IN  IF outs[i] \in {"absent", "invalid", "raises"}
             THEN DetectPass(outs, i + 1, detected)
             ELSE IF outs[i] = "executed"
             THEN [result |-> i, calls |-> acted]
             ELSE DetectPass(outs, i + 1, acted)

\* ModeManager.detect_and_execute on the active list outs
DetectAndExecuteFirstOnly(outs) ==
    IF outs = <<>> THEN [result |-> 0, calls |-> <<>>]
    ELSE DetectPass(<<outs[1]>>, 1, <<>>)

DetectAndExecute(outs) ==
    IF outs = <<>> THEN [result |-> 0, calls |-> <<>>]
    ELSE DetectPass(outs, 1, <<>>)

\* ModeManager.detect_and_execute with the detectors this program
\* registers: the outcome of the pass, given whether
\* AmazonQDetector.detect_state returns a valid result (runButton) and
\* whether its click succeeds (clickOK)
detect_and_execute(runButton, clickOK) ==
    LET outcome == IF ~runButton THEN "absent"
                   ELSE IF clickOK THEN "executed"
                   ELSE "action_failed"
        active == IF "amazonq" \in get_active_detectors(current_mode)
                  THEN <<outcome>> ELSE <<>>
    IN  IF DetectAndExecute(active).result # 0 THEN "clicked"
        ELSE IF active # <<>> /\ runButton THEN "click_failed"
        ELSE "none"

\* KiroRecovery._detect_and_execute_with_offset: detect_state(screenshot,
\* region_offset) does not fit AmazonQDetector.detect_state(self,
\* screenshot); the TypeError is caught per detector and nothing is executed
detect_and_execute_with_offset(runButton, clickOK) == "none"

\* ImageProcessor.detect_error finds a template (errFound: one matches)
detect_error(errFound) == errFound /\ error_templates # {}

\* `while self.monitoring:` (the thread ends when the flag is false)
LoopCheckIgnoresFlag(t) ==
    /\ pc[t] = "loop"
    /\ pc' = [pc EXCEPT ![t] = "iter"]
    /\ UNCHANGED <<scanv, orch, conf, now, cur, log, ret>>

LoopCheck(t) ==
    /\ pc[t] = "loop"
    /\ pc' = [pc EXCEPT ![t] = IF monitoring THEN "iter" ELSE "none"]
    /\ UNCHANGED <<scanv, orch, conf, now, cur, log, ret>>

\* one pass of the try block up to _handle_error_detection: capture,
\* detector pass, legacy error detection.  ~captureOK: the pass raises
\* (capture_screen's RuntimeError, a KeyError on a monitor-area entry) and
\* `except Exception` takes it
IterateGoesOnAfterClick(t, cfg, captureOK, runButton, clickOK, errFound) ==
    /\ pc[t] = "iter"
    /\ captureOK \/ ~(runButton \/ errFound)
    /\ runButton \/ ~clickOK
    /\ LET res == IF cfg = "areas"
                  THEN detect_and_execute_with_offset(runButton, clickOK)
                  ELSE detect_and_execute(runButton, clickOK)
       IN  IF ~captureOK
           THEN /\ pc' = [pc EXCEPT ![t] = "backoff"]
                /\ log' = [log EXCEPT ![t] = "error"]
           ELSE IF detect_error(errFound)
           THEN /\ pc' = [pc EXCEPT ![t] = "handle"]
                /\ log' = [log EXCEPT ![t] =
                             IF res = "clicked" THEN "clicked" ELSE @]
           ELSE /\ pc' = [pc EXCEPT ![t] = "sleep"]
                /\ log' = [log EXCEPT ![t] =
                             IF res = "clicked" THEN "clicked" ELSE "idle"]
    /\ UNCHANGED <<scanv, orch, conf, now, cur, ret>>

Iterate(t, cfg, captureOK, runButton, clickOK, errFound) ==
    /\ pc[t] = "iter"
    \* an outcome exists only for a call that is made: no detection
    \* without a screenshot, no click without a detected button
    /\ captureOK \/ ~(runButton \/ errFound)
    /\ runButton \/ ~clickOK
    /\ LET res == IF cfg = "areas"
                  THEN detect_and_execute_with_offset(runButton, clickOK)
                  ELSE detect_and_execute(runButton, clickOK)
       IN  IF ~captureOK
           THEN /\ pc' = [pc EXCEPT ![t] = "backoff"]
                /\ log' = [log EXCEPT ![t] = "error"]
           ELSE IF res = "clicked"
           THEN /\ pc' = [pc EXCEPT ![t] = "sleep"]
                /\ log' = [log EXCEPT ![t] = "clicked"]
           ELSE IF detect_error(errFound)
           THEN /\ pc' = [pc EXCEPT ![t] = "handle"]
                /\ log' = log
           ELSE /\ pc' = [pc EXCEPT ![t] = "sleep"]
                /\ log' = [log EXCEPT ![t] = "idle"]
    /\ UNCHANGED <<scanv, orch, conf, now, cur, ret>>

\* ---- the monitor_areas branch of the iteration, one area at a time ----
\* `monitor_areas = config_manager.get("monitor_areas", [])` is not empty:
\* the thread enters `for area in monitor_areas`
ScanBegin(t, areasCfg) ==
    /\ pc[t] = "iter"
    /\ areasCfg # <<>>
    /\ pc' = [pc EXCEPT ![t] = "scan"]
    /\ monitor_areas' = [monitor_areas EXCEPT ![t] = areasCfg]
    /\ area' = [area EXCEPT ![t] = 1]
    /\ scan_log' = [scan_log EXCEPT ![t] = <<>>]
    /\ UNCHANGED <<orch, conf, now, cur, log, ret, detect_pass, detv>>

\* one turn of the for loop: a disabled area is passed over; an enabled one
\* is captured, handed to _detect_and_execute_with_offset (which asks
\* get_active_detectors, and that logs the mode it reads) and then to
\* detect_error; `break` follows an executed detection as well as a
\* detected error; after the last area the loop falls to time.sleep
ScanArea(t, captureOK, runButton, clickOK, errFound) ==
    /\ pc[t] = "scan"
    /\ captureOK \/ ~(runButton \/ errFound)
    /\ runButton \/ ~clickOK
    /\ LET i == area[t]
           entry == [area |-> i, mode |-> current_mode]
       IN  IF i > Len(monitor_areas[t])
           THEN /\ pc' = [pc EXCEPT ![t] = "sleep"]
                /\ log' = [log EXCEPT ![t] = "idle"]
                /\ UNCHANGED <<area, scan_log>>
           ELSE IF ~monitor_areas[t][i].enabled
           THEN /\ area' = [area EXCEPT ![t] = i + 1]
                /\ UNCHANGED <<pc, log, scan_log>>
           ELSE IF ~captureOK
           THEN /\ pc' = [pc EXCEPT ![t] = "backoff"]
                /\ log' = [log EXCEPT ![t] = "error"]
                /\ UNCHANGED <<area, scan_log>>
           ELSE /\ scan_log' = [scan_log EXCEPT ![t] = Append(@, entry)]
                /\ IF detect_and_execute_with_offset(runButton, clickOK)
                         = "clicked"
                   THEN /\ pc' = [pc EXCEPT ![t] = "sleep"]
                        /\ log' = [log EXCEPT ![t] = "clicked"]
                        /\ area' = area
                   ELSE IF detect_error(errFound)
                   THEN /\ pc' = [pc EXCEPT ![t] = "handle"]
                        /\ UNCHANGED <<log, area>>
                   ELSE /\ area' = [area EXCEPT ![t] = i + 1]
                        /\ UNCHANGED <<pc, log>>
    /\ UNCHANGED <<orch, conf, now, cur, ret, monitor_areas, detect_pass,
                   detv>>

\* _handle_error_detection up to the call of send_recovery_command
HandleCheckNoGate(t) ==
    /\ pc[t] = "handle"
    /\ pc' = [pc EXCEPT ![t] = "send"]
    /\ cur' = [cur EXCEPT ![t] = now]
    /\ log' = log
    /\ UNCHANGED <<scanv, orch, conf, now, ret>>

HandleCheck(t) ==
    /\ pc[t] = "handle"
    /\ IF should_attempt_recovery
       THEN /\ pc' = [pc EXCEPT ![t] = "send"]
            /\ cur' = [cur EXCEPT ![t] = now]
            /\ log' = log
       ELSE /\ pc' = [pc EXCEPT ![t] = "sleep"]
            /\ cur' = cur
            /\ log' = [log EXCEPT ![t] = "skipped"]
    /\ UNCHANGED <<scanv, orch, conf, now, ret>>

\* the rest of _handle_error_detection: send_recovery_command returned ok
HandleResultCountsFailure(t, ok) ==
    /\ pc[t] = "send"
    /\ pc' = [pc EXCEPT ![t] = "sleep"]
    /\ cur' = [cur EXCEPT ![t] = 0]
    /\ last_error_time' = IntTrunc(cur[t])
    /\ recovery_attempts' = recovery_attempts + 1
    /\ log' = [log EXCEPT ![t] = IF ok THEN "recovered" ELSE "send_failed"]
    /\ UNCHANGED <<scanv, monitoring, conf, now, ret>>

HandleResultNoTrunc(t, ok) ==
    /\ pc[t] = "send"
    /\ pc' = [pc EXCEPT ![t] = "sleep"]
    /\ cur' = [cur EXCEPT ![t] = 0]
    /\ IF ok
       THEN /\ last_error_time' = cur[t]
            /\ recovery_attempts' = recovery_attempts + 1
            /\ log' = [log EXCEPT ![t] = "recovered"]
       ELSE /\ log' = [log EXCEPT ![t] = "send_failed"]
            /\ UNCHANGED <<last_error_time, recovery_attempts>>
    /\ UNCHANGED <<scanv, monitoring, conf, now, ret>>

HandleResult(t, ok) ==
    /\ pc[t] = "send"
    /\ pc' = [pc EXCEPT ![t] = "sleep"]
    /\ cur' = [cur EXCEPT ![t] = 0]
    /\ IF ok
       THEN /\ last_error_time' = IntTrunc(cur[t])
            /\ recovery_attempts' = recovery_attempts + 1
            /\ log' = [log EXCEPT ![t] = "recovered"]
       ELSE /\ log' = [log EXCEPT ![t] = "send_failed"]
            /\ UNCHANGED <<last_error_time, recovery_attempts>>
    /\ UNCHANGED <<scanv, monitoring, conf, now, ret>>

\* time.sleep(monitor_interval) / time.sleep(5) is over
SleepExitsAfterError(t) ==
    /\ pc[t] \in {"sleep", "backoff"}
    /\ pc' = [pc EXCEPT ![t] = IF pc[t] = "backoff" THEN "none" ELSE "loop"]
    /\ log' = [log EXCEPT ![t] = "none"]
    /\ UNCHANGED <<scanv, orch, conf, now, cur, ret>>

Sleep(t) ==
    /\ pc[t] \in {"sleep", "backoff"}
    /\ pc' = [pc EXCEPT ![t] = "loop"]
    /\ log' = [log EXCEPT ![t] = "none"]
    /\ UNCHANGED <<scanv, orch, conf, now, cur, ret>>

\* ------------------------------------------------------------------ next
Next ==
    \/ Tick
    \/ StartMonitoring
    \/ StopMonitoring
    \/ \E mode \in VALID_MODES \cup {"manual"} : SwitchMode(mode, TRUE)
    \/ \E t \in Threads : LoopCheck(t)
    \/ \E t \in Threads, cfg \in CaptureCfgs,
          captureOK, runButton, clickOK, errFound \in BOOLEAN :
            Iterate(t, cfg, captureOK, runButton, clickOK, errFound)
    \/ \E t \in Threads : HandleCheck(t)
    \/ \E t \in Threads, ok \in BOOLEAN : HandleResult(t, ok)
    \/ \E t \in Threads : Sleep(t)

Spec == Init /\ [][Next]_vars

\* ------------------------------------------- should_attempt_recovery alone
\* the fields and the clock drawn from their ranges, the function called once
InitPolicy ==
    /\ monitoring = FALSE
    /\ max_recovery_attempts \in 1..MaxAttemptsCfg
    /\ recovery_attempts \in 0..(MaxAttemptsCfg + 1)
    /\ now \in Epoch..MaxTime
    /\ last_error_time \in 0..now
    /\ current_mode = "auto"
    /\ config_mode = current_mode
    /\ saved_mode = current_mode
    /\ amazonq_enabled = TRUE
    /\ error_templates = {"compilation_error"}
    /\ pc = [t \in Threads |-> "none"]
    /\ cur = [t \in Threads |-> 0]
    /\ log = [t \in Threads |-> "none"]
    /\ ret = "-"
    /\ NoScan

CallShouldAttempt ==
    /\ ret = "-"
    /\ ret' = (IF should_attempt_recovery THEN "True" ELSE "False")
    /\ UNCHANGED <<scanv, orch, conf, now, pc, cur, log>>

NextPolicy == CallShouldAttempt

SpecPolicy == InitPolicy /\ [][NextPolicy]_vars

\* ------------------------------------------ every detector configuration
\* the orchestrator constructed from any configuration: "amazonq.enabled"
\* either way, error templates loaded or not, any valid "mode"; the clock
\* stands at the time of construction
InitModes ==
    /\ monitoring = FALSE
    /\ recovery_attempts = 0
    /\ last_error_time = 0
    /\ max_recovery_attempts = MaxAttemptsCfg
    /\ current_mode \in VALID_MODES
    /\ config_mode = current_mode
    /\ saved_mode = current_mode
    /\ amazonq_enabled \in BOOLEAN
    /\ error_templates \in {{}, {"compilation_error"}}
    /\ now = Epoch
    /\ pc = [t \in Threads |-> "none"]
    /\ cur = [t \in Threads |-> 0]
    /\ log = [t \in Threads |-> "none"]
    /\ ret = "-"
    /\ NoScan

NextModes ==
    \/ StartMonitoring
    \/ StopMonitoring
    \/ \E mode \in VALID_MODES \cup {"manual"}, saved \in BOOLEAN :
          SwitchMode(mode, saved)
    \/ \E t \in Threads : LoopCheck(t)
    \/ \E t \in Threads, cfg \in CaptureCfgs,
          captureOK, runButton, clickOK, errFound \in BOOLEAN :
            Iterate(t, cfg, captureOK, runButton, clickOK, errFound)
    \/ \E t \in Threads : HandleCheck(t)
    \/ \E t \in Threads, ok \in BOOLEAN : HandleResult(t, ok)
    \/ \E t \in Threads : Sleep(t)

SpecModes == InitModes /\ [][NextModes]_vars

\* ------------------------------------------- any configuration file
\* what the configuration file may hold under "mode": a valid mode, some
\* other string, or no such key
ConfigModes == VALID_MODES \cup {"manual", "absent"}

\* ModeManager.__init__: str(config_manager.get("mode", "auto"))
ModeManagerInit(mode) == IF mode = "absent" THEN "auto" ELSE mode

InitConfigured ==
    /\ monitoring = FALSE
    /\ recovery_attempts = 0
    /\ last_error_time = 0
    /\ max_recovery_attempts = MaxAttemptsCfg
    /\ config_mode \in ConfigModes
    /\ current_mode = ModeManagerInit(config_mode)
    /\ saved_mode = config_mode
    /\ amazonq_enabled \in BOOLEAN
    /\ error_templates = {"compilation_error"}
    /\ now = Epoch
    /\ pc = [t \in Threads |-> "none"]
    /\ cur = [t \in Threads |-> 0]
    /\ log = [t \in Threads |-> "none"]
    /\ ret = "-"
    /\ NoScan

SpecConfigured == InitConfigured /\ [][NextModes]_vars

\* ------------------------------------------------ monitor areas, by area
\* the lists "monitor_areas" may hold: 1..MaxAreas entries, each enabled
\* or not
AreaConfigs ==
    UNION {[1..n -> [enabled : BOOLEAN]] : n \in 1..MaxAreas}

\* one loop of an orchestrator whose configuration has monitor areas; the
\* control context switches the mode at any moment
NextScan ==
    \/ StartMonitoring
    \/ \E mode \in VALID_MODES : SwitchMode(mode, TRUE)
    \/ \E t \in Threads : LoopCheck(t)
    \/ \E t \in Threads, areasCfg \in AreaConfigs : ScanBegin(t, areasCfg)
    \/ \E t \in Threads, captureOK, runButton, clickOK, errFound \in BOOLEAN :
          ScanArea(t, captureOK, runButton, clickOK, errFound)
    \/ \E t \in Threads : HandleCheck(t)
    \/ \E t \in Threads, ok \in BOOLEAN : HandleResult(t, ok)
    \/ \E t \in Threads : Sleep(t)

SpecScan == Init /\ [][NextScan]_vars

\* ------------------------------------------------ detect_and_execute alone
\* the active lists a pass can meet: up to MaxDetectors detectors, each
\* with any outcome
ActiveLists ==
    UNION {[1..n -> Outcomes] : n \in 0..MaxDetectors}

InitDetect ==
    /\ monitoring = FALSE
    /\ recovery_attempts = 0
    /\ last_error_time = 0
    /\ max_recovery_attempts = MaxAttemptsCfg
    /\ current_mode = "auto"
    /\ config_mode = current_mode
    /\ saved_mode = current_mode
    /\ amazonq_enabled = TRUE
    /\ error_templates = {"compilation_error"}
    /\ now = Epoch
    /\ pc = [t \in Threads |-> "none"]
    /\ cur = [t \in Threads |-> 0]
    /\ log = [t \in Threads |-> "none"]
    /\ ret = "-"
    /\ monitor_areas = [t \in Threads |-> <<>>]
    /\ area = [t \in Threads |-> 0]
    /\ scan_log = [t \in Threads |-> <<>>]
    /\ detect_pass \in {[active |-> outs, calls |-> <<>>, result |-> -1] :
                           outs \in ActiveLists}
    /\ NoDet

CallDetectAndExecute ==
    /\ detect_pass.result = -1
    /\ LET r == DetectAndExecute(detect_pass.active)
       IN  detect_pass' = [active |-> detect_pass.active,
                           calls |-> r.calls, result |-> r.result]
    /\ UNCHANGED <<orch, conf, now, pc, cur, log, ret, monitor_areas, area,
                   scan_log, detv>>

NextDetect == CallDetectAndExecute

SpecDetect == InitDetect /\ [][NextDetect]_vars

\* ----------------------------------------------------- template matching
\* A template is what cv2.matchTemplate / cv2.minMaxLoc make of it on the
\* sample: its shape (h, w), its best score (max_val, in score steps) and
\* the place of that score (max_loc).  Its name is its place in the store,
\* the iteration order of the dict.
sample == [h |-> MaxDim, w |-> MaxDim]

Scores == -1..MaxScore
Thresholds == 0..MaxScore

\* the template is no larger than the sample; cv2.matchTemplate raises
\* cv2.error on one that is
Fits(tpl, smp) == tpl.h <= smp.h /\ tpl.w <= smp.w

\* Optional[DetectionResult] / Optional[str]: None
NoResult == [state_type |-> "None"]

\* DetectionResult.create_run_button_result
create_run_button_result(confidence, position, template_name) ==
    [state_type |-> "run_button", confidence |-> confidence,
     position |-> position, timestamp |-> now,
     metadata |-> [template_name |-> template_name]]

\* the loop `for template_name, template in run_button_templates.items()`
\* of AmazonQDetector.detect_state from template i on; best holds
\* best_confidence, best_position, best_template_name and the templates
\* handed to cv2.matchTemplate so far
RECURSIVE MatchAll(_, _, _, _)
MatchAll(tpls, smp, i, best) ==
    IF i > Len(tpls) THEN best
    ELSE LET tpl == tpls[i]
             tried == [best EXCEPT !.calls = Append(@, i)]
             center == <<tpl.loc[1] + tpl.w \div 2, tpl.loc[2] + tpl.h \div 2>>
         IN  IF ~Fits(tpl, smp)
             THEN MatchAll(tpls, smp, i + 1, tried)
             ELSE IF tpl.score > best.confidence
             THEN MatchAll(tpls, smp, i + 1,
                           [confidence |-> tpl.score, position |-> center,
                            template_name |-> i, calls |-> tried.calls])
             ELSE MatchAll(tpls, smp, i + 1, tried)

\* AmazonQDetector.detect_state(screenshot)
detect_stateNoThreshold(tpls, smp, threshold) ==
    LET best == MatchAll(tpls, smp, 1,
                         [confidence |-> 0, position |-> <<>>,
                          template_name |-> 0, calls |-> <<>>])
    IN  IF best.position # <<>>
        THEN [raised |-> "", calls |-> best.calls,
              result |-> create_run_button_result(best.confidence,
                             best.position, best.template_name)]
        ELSE [raised |-> "", calls |-> best.calls, result |-> NoResult]

detect_state(tpls, smp, threshold) ==
    IF Len(tpls) = 0
    THEN [raised |-> "", calls |-> <<>>, result |-> NoResult]
    ELSE LET best == MatchAll(tpls, smp, 1,
                              [confidence |-> 0, position |-> <<>>,
                               template_name |-> 0, calls |-> <<>>])
         IN  IF best.confidence >= threshold /\ best.position # <<>>
             THEN [raised |-> "", calls |-> best.calls,
                   result |-> create_run_button_result(best.confidence,
                                  best.position, best.template_name)]
             ELSE [raised |-> "", calls |-> best.calls, result |-> NoResult]

\* detector.detect_state(screenshot, region_offset), the call of
\* _detect_and_execute_with_offset on an AmazonQDetector: detect_state
\* takes (self, screenshot) only, the call raises TypeError before the body
detect_state_with_offset(tpls, smp, threshold, region_offset) ==
    [raised |-> "TypeError", calls |-> <<>>, result |-> NoResult]

\* the loop `for error_name, template in error_templates.items()` of
\* ImageProcessor.detect_error from template i on; calls are the templates
\* handed to cv2.matchTemplate so far, result 0 is None
RECURSIVE FirstMatch(_, _, _, _, _)
FirstMatch(tpls, smp, threshold, i, calls) ==
    IF i > Len(tpls) THEN [raised |-> "", calls |-> calls, result |-> 0]
    ELSE IF ~Fits(tpls[i], smp)
    THEN FirstMatch(tpls, smp, threshold, i + 1, calls)
    ELSE IF tpls[i].score >= threshold
    THEN [raised |-> "", calls |-> Append(calls, i), result |-> i]
    ELSE FirstMatch(tpls, smp, threshold, i + 1, Append(calls, i))

\* ImageProcessor.detect_error(screenshot, error_templates, threshold)
DetectErrorLastMatch(tpls, smp, threshold) ==
    LET hits == {i \in DOMAIN tpls :
                    Fits(tpls[i], smp) /\ tpls[i].score >= threshold}
    IN  [raised |-> "",
         calls |-> SelectSeq([i \in DOMAIN tpls |-> i],
                             LAMBDA i : Fits(tpls[i], smp)),
         result |-> IF hits = {} THEN 0
                    ELSE CHOOSE i \in hits : \A j \in hits : j <= i]

DetectError(tpls, smp, threshold) ==
    FirstMatch(tpls, smp, threshold, 1, <<>>)

\* ------------------------------------------------ detector functions alone
\* templates as their scores: one that fits the sample exactly, with any
\* score, and one too high and one too wide, which would score highest
ScoredTemplates ==
    {[h |-> MaxDim, w |-> MaxDim, score |-> score, loc |-> <<0, 0>>] :
        score \in Scores}
    \cup {[h |-> shape[1], w |-> shape[2], score |-> MaxScore,
           loc |-> <<0, 0>>] :
             shape \in {<<MaxDim + 1, MaxDim>>, <<MaxDim, MaxDim + 1>>}}

TemplateStores ==
    UNION {[1..n -> ScoredTemplates] : n \in 0..MaxTemplates}

\* one well-matching template of any shape that fits, found at any place
PlacedTemplates ==
    UNION {UNION {[h : {h}, w : {w}, score : {MaxScore},
                   loc : (0..(MaxDim - w)) \X (0..(MaxDim - h))] :
                     w \in 1..MaxDim} : h \in 1..MaxDim}

\* origins of a captured region on the screen
Offsets == {<<0, 0>>, <<MaxDim, 2 * MaxDim>>}

\* ModeManager.detect_and_execute: detector.detect_state(screenshot)
DetectStateCall(tpls, threshold) ==
    /\ probe = NoProbe
    /\ probe' = [fn |-> "detect_state", templates |-> tpls,
                 threshold |-> threshold,
                 out |-> detect_state(tpls, sample, threshold)]
    /\ UNCHANGED <<orch, conf, now, pc, cur, log, ret, monitor_areas, area,
                   scan_log, detect_pass, tplv>>

\* _detect_and_execute_with_offset:
\* detector.detect_state(screenshot, region_offset)
DetectStateOffsetCall(tpl, region_offset) ==
    /\ probe = NoProbe
    /\ probe' = [fn |-> "detect_state_with_offset", templates |-> <<tpl>>,
                 threshold |-> MaxScore, region_offset |-> region_offset,
                 out |-> detect_state_with_offset(<<tpl>>, sample, MaxScore,
                                                  region_offset)]
    /\ UNCHANGED <<orch, conf, now, pc, cur, log, ret, monitor_areas, area,
                   scan_log, detect_pass, tplv>>

\* KiroRecovery.detect_error: image_processor.detect_error(screenshot,
\* self.error_templates, threshold, monitor_region)
DetectErrorCall(tpls, threshold) ==
    /\ probe = NoProbe
    /\ probe' = [fn |-> "detect_error", templates |-> tpls,
                 threshold |-> threshold,
                 out |-> DetectError(tpls, sample, threshold)]
    /\ UNCHANGED <<orch, conf, now, pc, cur, log, ret, monitor_areas, area,
                   scan_log, detect_pass, tplv>>

NextMatch ==
    \/ \E tpls \in TemplateStores, threshold \in Thresholds :
          DetectStateCall(tpls, threshold)
    \/ \E tpl \in PlacedTemplates, region_offset \in Offsets :
          DetectStateOffsetCall(tpl, region_offset)
    \/ \E tpls \in TemplateStores, threshold \in Thresholds :
          DetectErrorCall(tpls, threshold)

InitMatch == Init /\ current_mode = "auto"

SpecMatch == InitMatch /\ [][NextMatch]_vars

\* -------------------------------------------------------------- actuators
\* a function body ends by returning a value or by raising
Returns(v) == [raised |-> "", value |-> v]
Raises(e) == [raised |-> e, value |-> FALSE]

\* `try: ... except Exception as e: ... return False`
ExceptReturnFalseMissing(body) == body

ExceptReturnFalse(body) ==
    IF body.raised # "" THEN Returns(FALSE) ELSE body

\* the try block of AmazonQDetector.execute_recovery_action: the position
\* is unpacked, the template name read from the metadata, pyautogui.click
\* called (click: "ok" or "raises")
ExecuteTry(result, click) ==
    IF Len(result.position) # 2 THEN Raises("ValueError")
    ELSE IF result.metadata = "None" THEN Raises("AttributeError")
    ELSE IF click = "raises" THEN Raises("PyAutoGUIException")
    ELSE Returns(TRUE)

\* AmazonQDetector.execute_recovery_action(result)
execute_recovery_action(result, click) ==
    IF result.state_type # "run_button" \/ result.position = <<>>
    THEN Returns(FALSE)
    ELSE ExceptReturnFalse(ExecuteTry(result, click))

\* the try block of KiroRecovery.send_recovery_command in an environment
\* env: the configured chat_input_position ("None", "malformed": not a
\* pair, "not_numbers", "ok"), PYAUTOGUI_AVAILABLE, the Kiro window
\* ("found", "none", "raises": window search or win32gui fails), the click
\* and the posting of the command ("ok", "raises")
SendTry(env) ==
    IF env.chat_input_position = "None" THEN Returns(FALSE)
    ELSE IF env.chat_input_position = "malformed" THEN Returns(FALSE)
    ELSE IF env.chat_input_position = "not_numbers" THEN Returns(FALSE)
    ELSE IF ~env.pyautogui THEN Returns(FALSE)
    ELSE IF env.window = "raises" THEN Raises("Exception")
    ELSE IF env.window = "none" THEN Returns(FALSE)
    ELSE IF env.click = "raises" THEN Raises("PyAutoGUIException")
    ELSE IF env.post = "raises" THEN Raises("pywintypes.error")
    ELSE Returns(TRUE)

\* KiroRecovery.send_recovery_command(error_type)
send_recovery_command(env) == ExceptReturnFalse(SendTry(env))

\* results handed to execute_recovery_action: any kind, with a position, a
\* malformed one or none, with metadata or without
ActionResults ==
    [state_type : {"run_button", "error"},
     position : {<<>>, <<1>>, <<1, 1>>},
     metadata : {"None", "template"}]

\* what send_recovery_command can meet
SendEnvs ==
    [chat_input_position : {"None", "malformed", "not_numbers", "ok"},
     pyautogui : BOOLEAN,
     window : {"found", "none", "raises"},
     click : {"ok", "raises"},
     post : {"ok", "raises"}]

ExecuteRecoveryActionCall(result, click) ==
    /\ probe = NoProbe
    /\ probe' = [fn |-> "execute_recovery_action", result |-> result,
                 click |-> click,
                 out |-> execute_recovery_action(result, click)]
    /\ UNCHANGED <<orch, conf, now, pc, cur, log, ret, monitor_areas, area,
                   scan_log, detect_pass, tplv>>

SendRecoveryCommandCall(env) ==
    /\ probe = NoProbe
    /\ probe' = [fn |-> "send_recovery_command", env |-> env,
                 out |-> send_recovery_command(env)]
    /\ UNCHANGED <<orch, conf, now, pc, cur, log, ret, monitor_areas, area,
                   scan_log, detect_pass, tplv>>

NextActuators ==
    \/ \E result \in ActionResults, click \in {"ok", "raises"} :
          ExecuteRecoveryActionCall(result, click)
    \/ \E env \in SendEnvs : SendRecoveryCommandCall(env)

SpecActuators == InitMatch /\ [][NextActuators]_vars

\* ------------------------------------------- the recovery command's events
\* commands are the sequences of their characters
\* the phrase send_recovery_command falls back to
DefaultCommand == <<"g", "o">>

\* "recovery_commands" of the configuration: none, one or two commands
RecoveryCommandLists ==
    {<<>>, << <<"r", "e", "d", "o">> >>,
     << <<"r", "e", "d", "o">>, <<"f", "i", "x">> >>}

\* "custom_commands" of the configuration: a command per error kind
CustomCommandTables ==
    {<<>>, [kind \in {"compilation_error"} |-> <<"m", "a", "k", "e">>]}

\* error_type: None or the name of the matched error template
ErrorTypes == {"None", "compilation_error", "timeout_error"}

\* the command send_recovery_command selects: the first recovery command
\* or the default phrase, replaced by custom_commands[error_type] when
\* error_type is given and is a key of the table
SelectCommandIgnoresKind(error_type, custom_commands, recovery_commands) ==
    IF recovery_commands # <<>> THEN recovery_commands[1]
    ELSE DefaultCommand

SelectCommand(error_type, custom_commands, recovery_commands) ==
    IF error_type # "None" /\ error_type \in DOMAIN custom_commands
    THEN custom_commands[error_type]
    ELSE IF recovery_commands # <<>> THEN recovery_commands[1]
    ELSE DefaultCommand

\* `for char in command: PostMessage(hwnd, WM_CHAR, ord(char), 0)`
PostChars(command) ==
    [i \in 1..Len(command) |-> <<"WM_CHAR", command[i]>>]

\* what send_recovery_command does to the desktop in env with the command
\* it selected: nothing when it returns before the click or the click
\* raises; the click alone when posting raises; else the click, the
\* characters and the Enter key down and up
SendEvents(env, command) ==
    IF \/ env.chat_input_position # "ok"
       \/ ~env.pyautogui
       \/ env.window # "found"
       \/ env.click = "raises"
    THEN <<>>
    ELSE IF env.post = "raises" THEN << <<"click", "chat_input_position">> >>
    ELSE << <<"click", "chat_input_position">> >>
         \o PostChars(command)
         \o << <<"WM_KEYDOWN", "VK_RETURN">>, <<"WM_KEYUP", "VK_RETURN">> >>

\* send_recovery_command(error_type) with its events
SendCommandCall(env, error_type, custom_commands, recovery_commands) ==
    /\ probe = NoProbe
    /\ probe' = [fn |-> "send_recovery_command", env |-> env,
                 error_type |-> error_type,
                 custom_commands |-> custom_commands,
                 recovery_commands |-> recovery_commands,
                 events |-> SendEvents(env,
                               SelectCommand(error_type, custom_commands,
                                             recovery_commands)),
                 out |-> send_recovery_command(env)]
    /\ UNCHANGED <<orch, conf, now, pc, cur, log, ret, monitor_areas, area,
                   scan_log, detect_pass, tplv>>

NextSend ==
    \E env \in SendEnvs, error_type \in ErrorTypes,
       custom_commands \in CustomCommandTables,
       recovery_commands \in RecoveryCommandLists :
         SendCommandCall(env, error_type, custom_commands, recovery_commands)

SpecSend == InitMatch /\ [][NextSend]_vars

\* ------------------------------------------------------- DetectionResult
\* DetectionResult(...): the dataclass constructor with __post_init__,
\* which puts time.time() in place of a timestamp of 0
DetectionResult(state_type, confidence, position, timestamp, metadata) ==
    [state_type |-> state_type, confidence |-> confidence,
     position |-> position,
     timestamp |-> IF timestamp = 0 THEN now ELSE timestamp,
     metadata |-> metadata]

\* DetectionResult.is_valid; a state_type of None is "None", len(state_type)
\* is 0 for ""
is_validFromZero(r) ==
    r.confidence >= 0 /\ r.state_type # "None" /\ r.state_type # ""

is_valid(r) ==
    r.confidence > 0 /\ r.state_type # "None" /\ r.state_type # ""

\* DetectionResult.to_dict: the dict of the five fields
to_dict(r) ==
    [key \in {"state_type", "confidence", "position", "timestamp",
              "metadata"} |->
        IF key = "state_type" THEN r.state_type
        ELSE IF key = "confidence" THEN r.confidence
        ELSE IF key = "position" THEN r.position
        ELSE IF key = "timestamp" THEN r.timestamp
        ELSE r.metadata]

\* DetectionResult.from_dict: the constructor on the dict's entries
from_dictNoMetadata(data) ==
    DetectionResult(data["state_type"], data["confidence"],
                    data["position"], data["timestamp"], <<>>)

from_dict(data) ==
    DetectionResult(data["state_type"], data["confidence"],
                    data["position"], data["timestamp"], data["metadata"])

\* what a detector whose detect_state returned r does in the pass of
\* detect_and_execute (`if result and result.is_valid()`), action being
\* "executed" or "action_failed"
OutcomeOf(r, action) ==
    IF r = NoResult THEN "absent"
    ELSE IF ~is_valid(r) THEN "invalid"
    ELSE action

\* the arguments of a constructor call: any kind or none, any confidence,
\* a position or None, a timestamp given (the time of construction of the
\* program) or left 0, metadata
ConstructorArgs ==
    [state_type : {"None", "", "run_button"},
     confidence : Scores,
     position : {<<>>, <<MaxDim, MaxDim>>},
     timestamp : {0, Epoch},
     metadata : {<<>>, [template_name |-> 1]}]

\* DetectionResult(**args)
Construct(args) ==
    DetectionResult(args.state_type, args.confidence, args.position,
                    args.timestamp, args.metadata)

\* detect_and_execute with one active detector whose detect_state
\* returns DetectionResult(**args)
DetectAndExecuteOn(args, action) ==
    /\ probe = NoProbe
    /\ probe' = [fn |-> "detect_and_execute", result |-> Construct(args),
                 action |-> action,
                 out |-> DetectAndExecute(
                            <<OutcomeOf(Construct(args), action)>>)]
    /\ UNCHANGED <<orch, conf, now, pc, cur, log, ret, monitor_areas, area,
                   scan_log, detect_pass, tplv>>

\* r = DetectionResult(**args)
ConstructCall(args) ==
    /\ probe = NoProbe
    /\ probe' = [fn |-> "DetectionResult", result |-> Construct(args)]
    /\ UNCHANGED <<orch, conf, now, pc, cur, log, ret, monitor_areas, area,
                   scan_log, detect_pass, tplv>>

\* DetectionResult.from_dict(r.to_dict()), at any time after r was made
RoundTripCall ==
    /\ probe.fn = "DetectionResult"
    /\ probe' = [fn |-> "from_dict", result |-> probe.result,
                 out |-> from_dict(to_dict(probe.result))]
    /\ UNCHANGED <<orch, conf, now, pc, cur, log, ret, monitor_areas, area,
                   scan_log, detect_pass, tplv>>

NextResult ==
    \/ \E args \in ConstructorArgs, action \in {"executed", "action_failed"} :
          DetectAndExecuteOn(args, action)
    \/ \E args \in ConstructorArgs : ConstructCall(args)
    \/ RoundTripCall
    \/ Tick

SpecResult == InitMatch /\ [][NextResult]_vars

\* ------------------------------------------- run-button template store
\* dict[key] = value on an insertion-ordered dict: an existing key keeps
\* its place, a new key goes last
DictSet(dict, key, value) ==
    IF \E i \in DOMAIN dict : dict[i][1] = key
    THEN [i \in DOMAIN dict |->
            IF dict[i][1] = key THEN <<key, value>> ELSE dict[i]]
    ELSE Append(dict, <<key, value>>)

\* the loop of _load_run_button_templates over the directory's files from
\* file `name` on: each readable file is set in the dict, nothing is removed
RECURSIVE LoadFiles(_, _, _)
LoadFiles(dict, dir, name) ==
    IF name > MaxTemplates THEN dict
    ELSE LoadFiles(IF dir[name] = "" THEN dict
                   ELSE DictSet(dict, name, dir[name]),
                   dir, name + 1)

\* AmazonQDetector.add_template(template_name, template_image), called
\* from the control context (save_error_template, main window). fault is
\* what goes wrong: "convert" (cvtColor raises), "write_raises" (makedirs
\* or imwrite raises), "write_false" (imwrite returns False, unchecked)
AddTemplate(name, image, fault) ==
    /\ run_button_templates' =
          IF fault = "convert" THEN run_button_templates
          ELSE DictSet(run_button_templates, name, image)
    /\ templates_dir' =
          IF fault = "none" THEN [templates_dir EXCEPT ![name] = image]
          ELSE templates_dir
    /\ ret' = IF fault \in {"none", "write_false"} THEN "True" ELSE "False"
    /\ UNCHANGED <<orch, conf, now, pc, cur, log, monitor_areas, area,
                   scan_log, detect_pass, probe, match_pass>>

\* delete_error_template(template_name) in amazonq mode: removes the file
\* and has the detector reload its templates into the same dict
DeleteTemplate(name) ==
    /\ templates_dir[name] # ""
    /\ templates_dir' = [templates_dir EXCEPT ![name] = ""]
    /\ run_button_templates' =
          LoadFiles(run_button_templates, templates_dir', 1)
    /\ ret' = "True"
    /\ UNCHANGED <<orch, conf, now, pc, cur, log, monitor_areas, area,
                   scan_log, detect_pass, probe, match_pass>>

\* detect_state in the polling thread: returns at once without templates,
\* else starts `for template_name, template in
\* self.run_button_templates.items()`; the iterator notes the dict's size
MatchBegin ==
    /\ match_pass.state # "iterating"
    /\ match_pass' =
          [state |-> IF run_button_templates = <<>> THEN "returned"
                     ELSE "iterating",
           used |-> Len(run_button_templates), pos |-> 0, seen |-> <<>>,
           old |-> run_button_templates]
    /\ UNCHANGED <<orch, conf, now, pc, cur, log, ret, monitor_areas, area,
                   scan_log, detect_pass, probe, run_button_templates,
                   templates_dir>>

\* the iterator's next item: RuntimeError (dictionary changed size during
\* iteration) when the dict's size is no longer the one noted, raised in
\* the `for` statement, outside the loop body's try; else the item at the
\* next place as the dict holds it now, or the end of the loop
MatchNext ==
    /\ match_pass.state = "iterating"
    /\ match_pass' =
          IF Len(run_button_templates) # match_pass.used
          THEN [match_pass EXCEPT !.state = "raised"]
          ELSE IF match_pass.pos < Len(run_button_templates)
          THEN [match_pass EXCEPT
                  !.pos = @ + 1,
                  !.seen = Append(@, run_button_templates[match_pass.pos + 1])]
          ELSE [match_pass EXCEPT !.state = "returned"]
    /\ UNCHANGED <<orch, conf, now, pc, cur, log, ret, monitor_areas, area,
                   scan_log, detect_pass, probe, run_button_templates,
                   templates_dir>>

AddFaults == {"none", "convert", "write_raises", "write_false"}

NextTemplates ==
    \/ \E name \in TemplateNames, image \in Images, fault \in AddFaults :
          AddTemplate(name, image, fault)
    \/ \E name \in TemplateNames : DeleteTemplate(name)
    \/ MatchBegin
    \/ MatchNext

SpecTemplates == InitMatch /\ [][NextTemplates]_vars

\* ----------------------------------------------------------- sleep lengths
\* times in tenths of a second
\* ConfigManager._validate_setting("monitor_interval", value): 0.1 .. 60.0
MinIntervalTenths == 1
MaxIntervalTenths == 600
\* load_config's default monitor_interval, 2.0
DefaultIntervalTenths == 20
\* time.sleep(5) of monitor_loop's except branch
ErrorSleepTenths == 50

validate_monitor_interval(value) ==
    MinIntervalTenths <= value /\ value <= MaxIntervalTenths

\* values a caller may hand to ConfigManager.set("monitor_interval", .)
IntervalValues == 0..(MaxIntervalTenths + 1)

\* ConfigManager.set("monitor_interval", value) on the default
\* configuration: the value is stored if it is valid and dropped if not
SetMonitorInterval(value) ==
    /\ probe = NoProbe
    /\ probe' = [fn |-> "set", value |-> value,
                 monitor_interval |->
                    IF validate_monitor_interval(value) THEN value
                    ELSE DefaultIntervalTenths]
    /\ UNCHANGED <<orch, conf, now, pc, cur, log, ret, monitor_areas, area,
                   scan_log, detect_pass, tplv>>

\* the sleep that ends an iteration of monitor_loop, which read
\* monitor_interval when it started: time.sleep(monitor_interval) after
\* the try block, time.sleep(5) in `except Exception`
IterationSleep(raised) ==
    /\ probe.fn = "set"
    /\ probe' = [fn |-> "sleep", monitor_interval |-> probe.monitor_interval,
                 raised |-> raised,
                 out |-> IF raised THEN ErrorSleepTenths
                         ELSE probe.monitor_interval]
    /\ UNCHANGED <<orch, conf, now, pc, cur, log, ret, monitor_areas, area,
                   scan_log, detect_pass, tplv>>

NextSleep ==
    \/ \E value \in IntervalValues : SetMonitorInterval(value)
    \/ \E raised \in BOOLEAN : IterationSleep(raised)

SpecSleep == InitMatch /\ [][NextSleep]_vars

\* ------------------------------------------------- scheduled loop threads
\* a loop thread that can take its next step takes it: the interpreter
\* schedules every thread, and capture, detection, the recovery command
\* and both sleeps return after a bounded time
NextLive ==
    \/ StartMonitoring
    \/ StopMonitoring
    \/ \E t \in Threads : LoopCheck(t)
    \/ \E t \in Threads, cfg \in CaptureCfgs,
          captureOK, runButton, clickOK, errFound \in BOOLEAN :
            Iterate(t, cfg, captureOK, runButton, clickOK, errFound)
    \/ \E t \in Threads : HandleCheck(t)
    \/ \E t \in Threads, ok \in BOOLEAN : HandleResult(t, ok)
    \/ \E t \in Threads : Sleep(t)

ThreadFairness ==
    \A t \in Threads :
        /\ WF_vars(LoopCheck(t))
        /\ WF_vars(\E cfg \in CaptureCfgs,
                      captureOK, runButton, clickOK, errFound \in BOOLEAN :
                        Iterate(t, cfg, captureOK, runButton, clickOK,
                                errFound))
        /\ WF_vars(HandleCheck(t))
        /\ WF_vars(\E ok \in BOOLEAN : HandleResult(t, ok))
        /\ WF_vars(Sleep(t))

SpecLive == InitModes /\ [][NextLive]_vars /\ ThreadFairness

\* ------------------------------------------------------------ properties
\* the recovery-attempt policy as the specification words it
PolicyPermits ==
    /\ now - last_error_time >= CooldownTicks
    /\ recovery_attempts < max_recovery_attempts

\* thread t performs a recovery action in this step: the run-button click
\* of the detector pass, or the recovery command that has been sent
ActionSucceeds(t) ==
    \/ pc[t] = "iter" /\ log'[t] = "clicked"
    \/ pc[t] = "send" /\ log'[t] = "recovered"

LiveThreads == {t \in Threads : pc[t] # "none"}

\* C1: recovery_attempts <= max_recovery_attempts in every reachable state,
\* under any interleaving of start, stop and the loop threads' steps.
C1_AttemptsWithinMax == recovery_attempts <= max_recovery_attempts

\* C2: every recovery action the loop executes (the AmazonQ click as well as
\* the recovery command) is executed only while the policy permits it:
\* cooldown elapsed and attempts < max at that moment.
C2_ActionsGated ==
    [][\A t \in Threads : ActionSucceeds(t) => PolicyPermits]_vars

\* C3: should_attempt_recovery returns true exactly when
\* now - last_error_time >= cooldown and attempts < max.
C3_PolicyIff ==
    ret # "-" => (ret = "True" <=> PolicyPermits)

C3_Witness ==
    /\ ret = "False"
    /\ recovery_attempts >= max_recovery_attempts
    /\ now - last_error_time >= CooldownTicks

\* C4: when the policy does not permit an attempt, _handle_error_detection
\* dispatches no recovery command and changes neither recovery_attempts nor
\* last_error_time (so at attempts = max a further detection is ignored).
C4_SkipChangesNothing ==
    [][\A t \in Threads :
          (pc[t] = "handle" /\ pc'[t] # "handle" /\ ~PolicyPermits)
          => /\ pc'[t] = "sleep"
             /\ log'[t] = "skipped"
             /\ UNCHANGED <<recovery_attempts, last_error_time>>]_vars

C4_Witness ==
    \E t \in Threads :
        /\ log[t] = "skipped"
        /\ max_recovery_attempts = MaxAttemptsCfg
        /\ recovery_attempts = max_recovery_attempts
        /\ now - last_error_time >= CooldownTicks

\* C5: when the policy permits the attempt but send_recovery_command fails,
\* _handle_error_detection changes neither recovery_attempts nor
\* last_error_time.
C5_FailureChangesNothing ==
    [][\A t \in Threads :
          ((pc[t] = "handle" /\ pc'[t] = "send")
             \/ (pc[t] = "send" /\ log'[t] = "send_failed"))
          => UNCHANGED <<recovery_attempts, last_error_time>>]_vars

C5_Witness ==
    \E t \in Threads :
        /\ log[t] = "send_failed"
        /\ recovery_attempts > 0
        /\ recovery_attempts < max_recovery_attempts

\* C6 as claimed: on a successful recovery command recovery_attempts grows
\* by exactly 1 and last_error_time is set to the current time.
C6_SetToNow ==
    [][\A t \in Threads :
          (pc[t] = "send" /\ log'[t] = "recovered")
          => /\ recovery_attempts' = recovery_attempts + 1
             /\ last_error_time' = now]_vars

\* C6 amended: on a successful recovery command recovery_attempts grows by
\* exactly 1 and last_error_time is set to the whole second of current_time,
\* the time sampled when _handle_error_detection was entered (before the
\* command was sent): never later than the current time, and less than a
\* second before the sampled time.
C6_SetToEntrySecond ==
    [][\A t \in Threads :
          (pc[t] = "send" /\ log'[t] = "recovered")
          => /\ recovery_attempts' = recovery_attempts + 1
             /\ last_error_time' % TicksPerSec = 0
             /\ last_error_time' <= cur[t]
             /\ cur[t] - last_error_time' < TicksPerSec
             /\ cur[t] <= now]_vars

C6_Witness ==
    \E t \in Threads :
        /\ log[t] = "recovered"
        /\ recovery_attempts = 1
        /\ last_error_time > 0
        /\ last_error_time < now

\* C7: any two successful recovery actions of the polling loop are at least
\* the cooldown apart: a recovery action succeeds only when the cooldown has
\* elapsed since the recorded time of the last successful recovery.
C7_ActionsCooldownApart ==
    [][\A t \in Threads :
          ActionSucceeds(t) => now - last_error_time >= CooldownTicks]_vars

\* C8: every transition of monitoring from false to true resets
\* recovery_attempts to 0, and start_monitoring returns the thread.
C8_StartResetsAttempts ==
    [][(~monitoring /\ monitoring')
          => (recovery_attempts' = 0 /\ ret' = "Thread")]_vars

C8_Witness ==
    /\ monitoring
    /\ ret = "Thread"
    /\ recovery_attempts = 0
    /\ last_error_time > 0

\* C9: at most one polling loop runs at any time.
C9_OneLoop == Cardinality(LiveThreads) <= 1

\* C10: start_monitoring while monitoring is already true returns no
\* thread, launches no loop and leaves monitoring, recovery_attempts and
\* last_error_time unchanged.
C10_StartWhileMonitoringNoOp ==
    [][(monitoring /\ StartMonitoring)
          => /\ ret' = "None"
             /\ UNCHANGED <<monitoring, recovery_attempts,
                            last_error_time, pc>>]_vars

C10_Witness ==
    /\ monitoring
    /\ ret = "None"
    /\ recovery_attempts > 0
    /\ LiveThreads # {}

\* no detection is available for mode m: the Kiro error templates in
\* 'kiro', the AmazonQ detector in 'amazonq', neither of them in 'auto'
NoDetectorFor(m) ==
    IF m = "kiro" THEN error_templates = {}
    ELSE IF m = "amazonq" THEN ~amazonq_enabled
    ELSE ~amazonq_enabled /\ error_templates = {}

\* C11: start_monitoring refuses to start whenever no detector is enabled
\* for the current mode, in each of the three modes: it returns no thread,
\* monitoring stays false, recovery_attempts is unchanged and no loop is
\* launched.
C11_RefusesWithoutDetector ==
    [][(~monitoring /\ NoDetectorFor(current_mode) /\ StartMonitoring)
          => /\ ret' = "None"
             /\ UNCHANGED <<monitoring, recovery_attempts, pc>>]_vars

\* C12: stop_monitoring is idempotent: called while monitoring is already
\* false it changes no state at all, so stop;stop leaves the state of stop.
C12_StopIdempotent ==
    [][(~monitoring /\ StopMonitoring) => UNCHANGED vars]_vars

\* a stopped orchestrator that has started, recovered and still has its
\* loop in flight: a second stop_monitoring has state it could disturb
C12_Witness ==
    /\ ~monitoring
    /\ ret = "Thread"
    /\ recovery_attempts > 0
    /\ LiveThreads # {}

\* C13: stop_monitoring only clears the flag and does not wait for the
\* loop (no thread moves in that step); a loop thread begins an iteration
\* only while the flag is true; and if from some time on monitoring stays
\* false (no later start_monitoring), every loop thread terminates, from
\* the exception back-off as from anywhere else.
C13_StopEndsLoop ==
    /\ [][/\ (monitoring /\ ~monitoring') => UNCHANGED pc
          /\ \A t \in Threads :
                (pc[t] = "loop" /\ pc'[t] = "iter") => monitoring]_vars
    /\ \A t \in Threads : <>[](~monitoring) => <>[](pc[t] = "none")

\* stopped while a loop thread is in the exception back-off
C13_Witness ==
    /\ ~monitoring
    /\ \E t \in Threads : pc[t] = "backoff" /\ log[t] = "error"

\* C14: an exception raised inside a polling iteration is caught at the
\* iteration boundary: the step leaves monitoring as it is and the thread
\* alive in its back-off, the back-off returns to the loop test, and from
\* the back-off the thread executes a later iteration unless monitoring has
\* become false.
C14_ExceptionKeepsLoop ==
    /\ [][\A t \in Threads :
            /\ (pc[t] = "iter" /\ log'[t] = "error")
                  => (pc'[t] = "backoff" /\ monitoring' = monitoring)
            /\ (pc[t] = "backoff" /\ pc'[t] # "backoff")
                  => pc'[t] = "loop"]_vars
    /\ \A t \in Threads :
          (pc[t] = "backoff") ~> (pc[t] = "iter" \/ ~monitoring)

\* a loop thread in its back-off after a failed iteration, still monitoring
C14_Witness ==
    /\ monitoring
    /\ \E t \in Threads : pc[t] = "backoff" /\ log[t] = "error"

\* C15: switch_mode with a value outside {kiro, amazonq, auto} returns
\* False and mutates nothing: the current mode, the active detector list and
\* the configuration (in memory and on file) are as before the call.
C15_InvalidModeRejected ==
    [][\A saved \in BOOLEAN :
          SwitchMode("manual", saved)
          => /\ ret' = "False"
             /\ UNCHANGED <<current_mode, config_mode, saved_mode>>
             /\ get_active_detectors(current_mode)'
                  = get_active_detectors(current_mode)]_vars

\* an invalid switch_mode has returned after a valid one had changed the
\* mode without reaching the file
C15_Witness ==
    /\ ret = "False"
    /\ current_mode = config_mode
    /\ saved_mode # current_mode

\* C16: a mode switch made while an iteration is in progress does not
\* affect it: every detector selection of one iteration, across all the
\* areas it scans, reads the same mode.
C16_OneModePerIteration ==
    \A t \in Threads :
        \A j, k \in DOMAIN scan_log[t] :
            scan_log[t][j].mode = scan_log[t][k].mode

\* the iteration of thread t has ended without an executed recovery action
EndedWithoutAction(t) ==
    /\ pc[t] = "sleep"
    /\ log[t] \in {"idle", "skipped", "send_failed"}

\* C20: the enabled areas are scanned in configured order, and only an
\* area in which a detection was followed by an executed recovery action
\* stops the scan: an iteration that ends without an executed action has
\* captured every enabled area.
C20_ScanStopsOnlyOnAction ==
    \A t \in Threads :
        EndedWithoutAction(t)
        => \A i \in DOMAIN monitor_areas[t] :
              monitor_areas[t][i].enabled
              => \E k \in DOMAIN scan_log[t] : scan_log[t][k].area = i

\* C17: in a single-purpose mode only that mode's detection and recovery
\* run in the loop: in 'amazonq' mode no iteration finds a Kiro error and
\* goes on to the Kiro recovery command, and in 'kiro' mode no iteration
\* clicks a run button.
C17_OnlyOwnModeRuns ==
    [][\A t \in Threads :
          /\ (pc[t] = "iter" /\ pc'[t] = "handle")
                => current_mode # "amazonq"
          /\ (pc[t] = "iter" /\ log'[t] = "clicked")
                => current_mode # "kiro"]_vars

\* C18: in every mode the active detector list holds only detectors whose
\* is_enabled() is true, and the loop executes the recovery action of no
\* disabled detector.
C18_OnlyEnabledDetectors ==
    /\ [](\A m \in VALID_MODES :
            \A d \in get_active_detectors(m) : is_enabled(d))
    /\ [][\A t \in Threads :
            (pc[t] = "iter" /\ log'[t] = "clicked") => amazonq_enabled]_vars

\* an iteration has passed with the AmazonQ detector disabled in a mode
\* that would select it
C18_Witness ==
    /\ ~amazonq_enabled
    /\ current_mode \in {"amazonq", "auto"}
    /\ \E t \in Threads : pc[t] = "sleep" /\ log[t] = "idle"

\* the detectors of the list whose result is valid and whose action
\* succeeds
Executing(outs) == {i \in DOMAIN outs : outs[i] = "executed"}

\* the first of them, 0 when there is none
FirstExecuting(outs) ==
    IF Executing(outs) = {} THEN 0
    ELSE CHOOSE i \in Executing(outs) : \A j \in Executing(outs) : i <= j

\* the calls a pass makes when it tries the detectors 1..last in order:
\* detect_state on each, execute_recovery_action after a valid detection
RECURSIVE CallsUpTo(_, _)
CallsUpTo(outs, last) ==
    IF last = 0 THEN <<>>
    ELSE CallsUpTo(outs, last - 1)
           \o <<<<last, "detect_state">>>>
           \o (IF outs[last] \in {"action_failed", "action_raises", "executed"}
               THEN <<<<last, "execute_recovery_action">>>> ELSE <<>>)

\* C19: detect_and_execute tries the active detectors in list order and
\* returns at the first one whose detection is valid and whose action
\* succeeds: no later detector is called in that pass, and a detector
\* without a valid detection, or whose action fails, does not stop the scan.
C19_FirstExecutingWins ==
    detect_pass.result # -1
    => LET outs == detect_pass.active
           first == FirstExecuting(outs)
           last == IF first = 0 THEN Len(outs) ELSE first
       IN  /\ detect_pass.result = first
           /\ detect_pass.calls = CallsUpTo(outs, last)

\* a pass went past a detector without detection and one whose action
\* failed, returned at the executing third one
C19_Witness ==
    /\ detect_pass.result = 3
    /\ detect_pass.active[1] = "absent"
    /\ detect_pass.active[2] = "action_failed"

\* C21: detect_state called with a region offset reports the position in
\* global screen coordinates: best-match top-left + (template width \div 2,
\* template height \div 2) + region offset.
C21_GlobalPosition ==
    probe.fn = "detect_state_with_offset"
    => LET tpl == probe.templates[1]
       IN  /\ probe.out.raised = ""
           /\ probe.out.result # NoResult
           /\ probe.out.result.position
                = <<probe.region_offset[1] + tpl.loc[1] + tpl.w \div 2,
                    probe.region_offset[2] + tpl.loc[2] + tpl.h \div 2>>

\* the templates of a store that fit the sample
Matchable(tpls) == {i \in DOMAIN tpls : Fits(tpls[i], sample)}

\* those of them that reach the threshold
Hits(tpls, threshold) ==
    {i \in Matchable(tpls) : tpls[i].score >= threshold}

\* C22: error-state detection is first-match: the reported error kind is
\* the first template in store order whose score reaches the threshold,
\* even when a later template scores higher, and no template after it is
\* evaluated; nothing is reported when no template reaches the threshold.
C22_FirstMatch ==
    probe.fn = "detect_error"
    => LET tpls == probe.templates
           hits == Hits(tpls, probe.threshold)
           res == probe.out.result
       IN  /\ probe.out.raised = ""
           /\ hits = {} => res = 0
           /\ hits # {} => (res \in hits /\ \A j \in hits : res <= j)
           /\ \A k \in DOMAIN probe.out.calls :
                 res # 0 => probe.out.calls[k] <= res

\* the first of two templates is reported although the second scores
\* higher, and the second has not been evaluated
C22_Witness ==
    /\ probe.fn = "detect_error"
    /\ Len(probe.templates) = 2
    /\ probe.out.result = 1
    /\ probe.templates[2].score > probe.templates[1].score
    /\ Fits(probe.templates[2], sample)
    /\ probe.out.calls = <<1>>

\* C23: action-trigger detection is best-match: every template is handed
\* to the matcher, a result names a template with the highest score and is
\* emitted only if that maximum reaches the threshold; with every score
\* below the threshold nothing is reported.
C23_BestMatch ==
    probe.fn = "detect_state"
    => LET tpls == probe.templates
           res == probe.out.result
       IN  /\ probe.out.raised = ""
           /\ probe.out.calls = [i \in DOMAIN tpls |-> i]
           /\ res # NoResult
                 => /\ res.metadata.template_name \in Matchable(tpls)
                    /\ res.confidence
                         = tpls[res.metadata.template_name].score
                    /\ \A j \in Matchable(tpls) :
                          tpls[j].score <= res.confidence
                    /\ res.confidence >= probe.threshold
           /\ Hits(tpls, probe.threshold) = {} => res = NoResult
           /\ (\E j \in Hits(tpls, probe.threshold) : tpls[j].score > 0)
                 => res # NoResult

\* two templates reach the threshold and the second, scoring higher, is
\* the one reported
C23_Witness ==
    /\ probe.fn = "detect_state"
    /\ Len(probe.templates) = 2
    /\ Hits(probe.templates, probe.threshold) = {1, 2}
    /\ probe.templates[2].score > probe.templates[1].score
    /\ probe.out.result # NoResult
    /\ probe.out.result.metadata.template_name = 2

\* C24: for every template higher or wider than the sample no match is
\* reported and cv2.matchTemplate is never invoked for that pair, in the
\* error-state detector and in the action-trigger detector alike.
C24_OversizeNeverMatched ==
    probe.fn \in {"detect_error", "detect_state"}
    => \A i \in DOMAIN probe.templates :
          ~Fits(probe.templates[i], sample)
          => /\ \A k \in DOMAIN probe.out.calls : probe.out.calls[k] # i
             /\ probe.fn = "detect_error" => probe.out.result # i
             /\ (probe.fn = "detect_state" /\ probe.out.result # NoResult)
                   => probe.out.result.metadata.template_name # i

\* nothing stands in the way of the click of result
ClickPossible(result, click) ==
    /\ result.state_type = "run_button"
    /\ Len(result.position) = 2
    /\ result.metadata # "None"
    /\ click = "ok"

\* nothing stands in the way of the recovery command in env
SendPossible(env) ==
    /\ env.chat_input_position = "ok"
    /\ env.pyautogui
    /\ env.window = "found"
    /\ env.click = "ok"
    /\ env.post = "ok"

\* C25: execute_recovery_action and send_recovery_command never raise:
\* every actuator failure (click error, missing window, missing or
\* malformed chat input position, unsupported result kind, missing
\* position) becomes a False return value, and only a call nothing failed
\* in returns True.
C25_ActuatorsNeverRaise ==
    /\ probe.fn = "execute_recovery_action"
          => /\ probe.out.raised = ""
             /\ probe.out.value = ClickPossible(probe.result, probe.click)
    /\ probe.fn = "send_recovery_command"
          => /\ probe.out.raised = ""
             /\ probe.out.value = SendPossible(probe.env)

\* the click of a well-formed run-button result raised and the call
\* returned False
C25_Witness ==
    /\ probe.fn = "execute_recovery_action"
    /\ probe.result.state_type = "run_button"
    /\ Len(probe.result.position) = 2
    /\ probe.click = "raises"
    /\ probe.out = Returns(FALSE)

\* execute_recovery_action was called in the pass
ActionCalled(calls) ==
    \E k \in DOMAIN calls : calls[k][2] = "execute_recovery_action"

\* C26: a DetectionResult with confidence <= 0 or with an empty or None
\* state_type is never actionable: detect_and_execute does not call
\* execute_recovery_action with it; a result with confidence > 0 and a
\* non-empty state_type is valid and acted on, its position None or not.
C26_InvalidNeverActionable ==
    probe.fn = "detect_and_execute"
    => LET r == probe.result
       IN  ActionCalled(probe.out.calls)
             <=> (r.confidence > 0 /\ r.state_type \notin {"None", ""})

\* a result of confidence 0 with a kind and a position was passed over
C26_Witness ==
    /\ probe.fn = "detect_and_execute"
    /\ probe.result.confidence = 0
    /\ probe.result.state_type = "run_button"
    /\ probe.result.position # <<>>
    /\ ~ActionCalled(probe.out.calls)

\* C27: for every DetectionResult r, from_dict(r.to_dict()) equals r:
\* state_type, confidence, position, timestamp and metadata are preserved.
C27_RoundTrip ==
    probe.fn = "from_dict" => probe.out = probe.result

\* a result constructed earlier, with a position and metadata, came back
\* from the round trip
C27_Witness ==
    /\ probe.fn = "from_dict"
    /\ probe.result.timestamp < now
    /\ probe.result.position # <<>>
    /\ probe.result.metadata # <<>>
    /\ probe.out.timestamp = probe.result.timestamp

\* C28: adding a template is atomic with respect to disk failure: when
\* persisting the template to disk fails, add_template reports failure and
\* the in-memory template map is the same as before the call.
C28_AddAtomic ==
    [][\A name \in TemplateNames, image \in Images :
          /\ AddTemplate(name, image, "write_raises")
               => /\ ret' = "False"
                  /\ run_button_templates' = run_button_templates
          /\ AddTemplate(name, image, "write_false")
               => /\ ret' = "False"
                  /\ run_button_templates' = run_button_templates]_vars

\* C29: a template add or reload made from the control context while the
\* polling loop runs a match pass is never observed partially: the pass
\* iterates the complete old template map or the complete new one, and
\* the mutation never makes the pass fail.
C29_PassSeesOneMap ==
    [][MatchNext
         => /\ match_pass'.state # "raised"
            /\ match_pass'.state = "returned"
                 => match_pass'.seen \in
                      {match_pass.old, run_button_templates}]_vars

C31_DeletedLeavesStore ==
    [][\A name \in TemplateNames :
          DeleteTemplate(name)
            => \A i \in DOMAIN run_button_templates' :
                  run_button_templates'[i][1] # name]_vars

\* C32: the sleep applied after an iteration that raised an exception is
\* strictly longer than the normal polling interval, for every
\* monitor_interval value the configuration accepts.
C32_BackoffLonger ==
    (probe.fn = "sleep" /\ probe.raised) => probe.out > probe.monitor_interval

\* C33: the current mode is always exactly one of the enumerated values
\* {kiro, amazonq, auto}, in every reachable state from construction of
\* the ModeManager onward, whatever "mode" value the configuration
\* provides.
C33_ModeEnumerated == current_mode \in VALID_MODES

\* C34: each polling iteration captures from the configured named
\* sub-regions if a sub-region list is configured (otherwise from the
\* single region, otherwise from the full screen); in every iteration at
\* least one sample is captured and passed to detection, and disabled
\* sub-regions are never captured.  Here: an iteration over a sub-region
\* list that reaches its sleep has captured some region, and only enabled
\* ones.
C34_EveryIterationCaptures ==
    [][\A t \in Threads :
          (pc[t] = "scan" /\ pc'[t] = "sleep")
            => /\ scan_log'[t] # <<>>
               /\ \A k \in DOMAIN scan_log'[t] :
                     monitor_areas[t][scan_log'[t][k].area].enabled]_vars

\* C35: with named sub-regions configured and the action-trigger (AmazonQ)
\* detector active, the detector is run on the sample of each enabled
\* region and a valid detection in a region leads to its click action
\* being executed in that iteration.
C35_RegionDetectionClicks ==
    [][\A t \in Threads, errFound \in BOOLEAN :
          (/\ pc[t] = "scan"
           /\ area[t] <= Len(monitor_areas[t])
           /\ monitor_areas[t][area[t]].enabled
           /\ "amazonq" \in get_active_detectors(current_mode)
           /\ ScanArea(t, TRUE, TRUE, TRUE, errFound))
            => log'[t] = "clicked"]_vars

\* the command the claim names for a call
ClaimedCommand(p) ==
    IF p.error_type \in DOMAIN p.custom_commands
    THEN p.custom_commands[p.error_type]
    ELSE IF Len(p.recovery_commands) > 0 THEN p.recovery_commands[1]
    ELSE DefaultCommand

\* C36: the error-state recovery action sends the command chosen by the
\* detected error kind (custom_commands[kind] when present, otherwise the
\* first configured recovery command, otherwise the default phrase) and the
\* events occur in the order: click on the input target, then the
\* command's characters in order, then the submit (Enter) key; when no
\* input target is available nothing is clicked or typed and the action
\* returns False.
C36_CommandAndOrder ==
    (probe.fn = "send_recovery_command" /\ "events" \in DOMAIN probe)
    => LET command == ClaimedCommand(probe)
           events == probe.events
           n == Len(command)
       IN  /\ probe.env.chat_input_position = "None"
                => events = <<>> /\ probe.out.value = FALSE
           /\ probe.out.value = TRUE
                => /\ Len(events) = n + 3
                   /\ events[1][1] = "click"
                   /\ \A i \in 1..n : events[i + 1] = <<"WM_CHAR", command[i]>>
                   /\ events[n + 2] = <<"WM_KEYDOWN", "VK_RETURN">>
                   /\ events[n + 3] = <<"WM_KEYUP", "VK_RETURN">>

\* the custom command of the detected kind was typed and submitted
C36_Witness ==
    /\ probe.fn = "send_recovery_command"
    /\ "events" \in DOMAIN probe
    /\ probe.out.value = TRUE
    /\ probe.error_type = "compilation_error"
    /\ probe.custom_commands # <<>>
    /\ probe.recovery_commands # <<>>
    /\ Len(probe.events) = 7

\* C37: at most one recovery action succeeds per polling iteration: once a
\* detector action or the error-state recovery command has succeeded, no
\* further detector, region or legacy error detection is evaluated in that
\* iteration: the thread is at the iteration's sleep, and its next step
\* is the end of that sleep.
C37_OneSuccessPerIteration ==
    [][\A t \in Threads :
          /\ ActionSucceeds(t) => pc'[t] = "sleep"
          /\ (log[t] \in {"clicked", "recovered"} /\ pc'[t] # pc[t])
               => /\ pc[t] = "sleep"
                  /\ pc'[t] = "loop"
                  /\ log'[t] = "none"]_vars

\* a run-button click and a recovery command have each ended an iteration
C37_Witness ==
    /\ \E t \in Threads : pc[t] = "sleep" /\ log[t] = "clicked"
    /\ \E t \in Threads : pc[t] = "sleep" /\ log[t] = "recovered"

\* C38: whenever monitoring is true after start_monitoring has returned, a
\* polling loop thread is alive; the loop never exits while monitoring is
\* still true, so the status snapshot never reports monitoring = true
\* with no loop running.
C38_MonitoringHasLoop ==
    /\ [](monitoring => LiveThreads # {})
    /\ [][\A t \in Threads :
             (pc[t] # "none" /\ pc'[t] = "none") => ~monitoring]_vars

\* monitoring is on and its only loop thread sits in the sleep that
\* follows an iteration that raised
C38_Witness ==
    /\ monitoring
    /\ Cardinality(LiveThreads) = 1
    /\ \E t \in Threads : pc[t] = "backoff" /\ log[t] = "error"

\* C39: start_monitoring and stop_monitoring leave last_error_time
\* unchanged: a restart resets only recovery_attempts, so a stop/start
\* inside the cooldown window does not allow a gated recovery before the
\* cooldown measured from the recorded time of the last successful
\* recovery has elapsed: the policy check of _handle_error_detection lets
\* a recovery command through only when that cooldown is over.
C39_RestartKeepsCooldown ==
    [][/\ (StartMonitoring \/ StopMonitoring)
            => last_error_time' = last_error_time
       /\ \A t \in Threads :
            (pc[t] = "handle" /\ pc'[t] = "send")
              => now - last_error_time >= CooldownTicks]_vars

\* after a successful recovery the loop was stopped and started again
\* (attempts are back at 0) and the new loop's recovery was skipped inside
\* the cooldown window
C39_Witness ==
    /\ monitoring
    /\ Cardinality(LiveThreads) = 1
    /\ recovery_attempts = 0
    /\ last_error_time > 0
    /\ now - last_error_time < CooldownTicks
    /\ \E t \in Threads : pc[t] = "sleep" /\ log[t] = "skipped"

====
